---------------------------- MODULE Spec2Model ----------------------------
(***************************************************************************)
(* Model of geode's NDVIAnalyzer (src/geode/analysis/ndvi.py) as driven by *)
(* examples/black_hills_analysis.py: rejection sampling of points inside   *)
(* a polygon, the per-point / per-year catalog queries, the pairing of     *)
(* the two observations of a point into a change record, and the           *)
(* visualisation / statistics-report step run on the resulting DataFrame.  *)
(*                                                                         *)
(* Coordinates and NDVI values are integers (grid units, tenths of NDVI).  *)
(* Python's None is the record None; an exception leaving a function is    *)
(* the record Raise(name).                                                 *)
(***************************************************************************)
EXTENDS Integers, Sequences, FiniteSets

VARIABLES
    polygon,      \* self.polygon: the exterior ring, first vertex = last
    n_points,     \* the n_points argument
    pc,           \* position in main / analyze_changes / generate_random_points
    points,       \* generate_random_points: points; analyze_changes: points
    attempts,     \* generate_random_points: attempts
    i,            \* analyze_changes: the enumerate index of the current point
    start_data,   \* analyze_changes: start_data
    end_data,     \* analyze_changes: end_data
    results,      \* analyze_changes: results
    changes,      \* the DataFrame returned by analyze_changes
    exc,          \* the exception that left main, "none" if none
    artifacts,    \* the files written under output_dir
    log,          \* history: per processed point, what its two queries returned
    last_call     \* history: the latest catalog answer and what get_satellite_data made of it

vars == <<polygon, n_points, pc, points, attempts, i, start_data, end_data,
          results, changes, exc, artifacts, log, last_call>>

---------------------------------------------------------------------------
(* Bounds of the model and constants of the program *)

\* largest n_points explored
MaxN == 2

\* max_attempts = n_points * 10
AttemptsFactor == 10

\* analyzer.analyze_changes(2018, 2023, n_points=10)
start_year == 2018
end_year == 2023

\* values _simulate_ndvi may draw (tenths: 0.4 and 0.7 are two of its means)
NdviVals == {4, 7}

\* eo:cloud_cover of an item the catalog returns (the query asks for < 20)
CloudVals == {10}

None == [kind |-> "none"]
Unset == [kind |-> "unset"]
Raise(e) == [kind |-> "raise", exc |-> e]

\* Polygon(polygon_coords): a convex square, a non-convex chevron with
\* slanted edges, and a degenerate ring of collinear vertices (zero area)
Square == << <<0, 0>>, <<3, 0>>, <<3, 3>>, <<0, 3>>, <<0, 0>> >>
Chevron == << <<0, 0>>, <<2, 1>>, <<4, 0>>, <<2, 4>>, <<0, 0>> >>
Degenerate == << <<0, 0>>, <<2, 0>>, <<1, 0>>, <<0, 0>> >>
Polygons == {Square, Chevron, Degenerate}

---------------------------------------------------------------------------
(* Region: self.polygon, self.bounds *)

Xs(poly) == {poly[k][1] : k \in DOMAIN poly}
Ys(poly) == {poly[k][2] : k \in DOMAIN poly}
Min(S) == CHOOSE m \in S : \A s \in S : m <= s
Max(S) == CHOOSE m \in S : \A s \in S : m >= s

\* self.polygon.bounds = (minx, miny, maxx, maxy)
Bounds(poly) == <<Min(Xs(poly)), Min(Ys(poly)), Max(Xs(poly)), Max(Ys(poly))>>

\* np.random.uniform(low, high): a value of [low, high), low itself when
\* the interval is empty
Uniform(low, high) == IF low >= high THEN {low} ELSE low .. (high - 1)

Edges(poly) == {<<poly[k], poly[k + 1]>> : k \in 1 .. (Len(poly) - 1)}

OnSegment(p, e) ==
    LET a == e[1]
        b == e[2]
    IN /\ (b[1] - a[1]) * (p[2] - a[2]) = (b[2] - a[2]) * (p[1] - a[1])
       /\ Min({a[1], b[1]}) <= p[1] /\ p[1] <= Max({a[1], b[1]})
       /\ Min({a[2], b[2]}) <= p[2] /\ p[2] <= Max({a[2], b[2]})

\* the ray from p towards +x crosses edge e
Crosses(p, e) ==
    LET a == e[1]
        b == e[2]
        dy == b[2] - a[2]
    IN /\ (a[2] > p[2]) # (b[2] > p[2])
       /\ IF dy > 0
          THEN (p[1] - a[1]) * dy < (p[2] - a[2]) * (b[1] - a[1])
          ELSE (p[1] - a[1]) * dy > (p[2] - a[2]) * (b[1] - a[1])

\* self.polygon.contains(point): p lies in the interior of the ring (a point
\* of the boundary is not contained; a ring of zero area has no interior)
Contains(poly, p) ==
    /\ \A e \in Edges(poly) : ~OnSegment(p, e)
    /\ Cardinality({e \in Edges(poly) : Crosses(p, e)}) % 2 = 1

---------------------------------------------------------------------------
(* Sampler: generate_random_points *)

max_attempts(n) == n * AttemptsFactor

LoopCondOffByOne(pts, att, n) == Len(pts) <= n /\ att <= max_attempts(n)

\* while len(points) < n_points and attempts < max_attempts
LoopCond(pts, att, n) == Len(pts) < n /\ att < max_attempts(n)

AcceptAlways(poly, pts, p) == Append(pts, p)

\* if self.polygon.contains(point): points.append((x, y))
Accept(poly, pts, p) == IF Contains(poly, p) THEN Append(pts, p) ELSE pts

AttemptedOnAccept(att, accepted) == IF accepted THEN att + 1 ELSE att

\* attempts += 1, whether or not the candidate was accepted
Attempted(att, accepted) == att + 1

\* one iteration of the while loop
SampleStep ==
    /\ pc = "sample"
    /\ LoopCond(points, attempts, n_points)
    /\ \E x \in Uniform(Bounds(polygon)[1], Bounds(polygon)[3]),
          y \in Uniform(Bounds(polygon)[2], Bounds(polygon)[4]) :
          /\ points' = Accept(polygon, points, <<x, y>>)
          /\ attempts' = Attempted(attempts, points' # points)
    /\ UNCHANGED <<polygon, n_points, pc, i, start_data, end_data, results,
                   changes, exc, artifacts, log, last_call>>

\* the loop condition fails: print the count, return points
SampleReturn ==
    /\ pc = "sample"
    /\ ~LoopCond(points, attempts, n_points)
    /\ pc' = "sampled"
    /\ UNCHANGED <<polygon, n_points, points, attempts, i, start_data,
                   end_data, results, changes, exc, artifacts, log, last_call>>

---------------------------------------------------------------------------
(* ObservationSource: get_satellite_data *)

\* what self.catalog.search(...).get_items() can do: raise
\* requests.exceptions.Timeout, raise another error, return no item, or
\* return an item.  An item carries its eo:cloud_cover and may have a
\* 'visual' asset.
Items == [kind : {"item"}, cloud : CloudVals, visual : BOOLEAN]
CatalogOutcomes ==
    {[kind |-> "timeout"], [kind |-> "error"], [kind |-> "no_items"]} \cup Items

\* The statements of the try block: the search raises, or returns no item
\* (the function falls through to `return None`), or returns an item, of
\* which the dict is built.  item.assets maps names to pystac Asset objects,
\* which have no method get: for an item with a 'visual' asset,
\* item.assets.get('visual', {}).get('href') raises AttributeError; without
\* one, {}.get('href') is None.
TryBody(point, year, outcome, ndvi) ==
    CASE outcome.kind = "timeout" -> Raise("Timeout")
      [] outcome.kind = "error" -> Raise("Exception")
      [] outcome.kind = "no_items" -> None
      [] outcome.kind = "item" ->
            IF outcome.visual
            THEN Raise("AttributeError")
            ELSE [kind |-> "obs",
                  datetime |-> year,
                  ndvi |-> ndvi,
                  cloud_cover |-> outcome.cloud,
                  preview_url |-> None]

\* try: ... except Exception as e: print(...); return None
get_satellite_data(point, year, outcome, ndvi) ==
    LET r == TryBody(point, year, outcome, ndvi)
    IN IF r.kind = "raise" THEN None ELSE r

\* truth value of `if start_data and end_data`
Truthy(d) == d.kind = "obs"

---------------------------------------------------------------------------
(* ChangeAnalyzer: analyze_changes *)

LoopPcSkipLast(k) == IF k < Len(points) THEN "fetch_start" ELSE "analyzed"

\* the for loop: the next point, or the return after the last one
LoopPc(k) == IF k <= Len(points) THEN "fetch_start" ELSE "analyzed"

\* pd.DataFrame(results): a frame built from no rows has no columns
RecordColumns ==
    {"longitude", "latitude", "start_ndvi", "end_ndvi", "ndvi_change",
     "start_date", "end_date", "start_preview", "end_preview",
     "start_cloud", "end_cloud"}
DataFrame(rows) ==
    [rows |-> rows, columns |-> IF rows = <<>> THEN {} ELSE RecordColumns]

NoFrame == [rows |-> <<>>, columns |-> {"unset"}]

ChangeSwapped(s, e) == s - e

\* 'ndvi_change': end_data['ndvi'] - start_data['ndvi']
Change(s, e) == e - s

\* the dict appended to results
ChangeRecord(point, s, e) ==
    [longitude |-> point[1],
     latitude |-> point[2],
     start_ndvi |-> s.ndvi,
     end_ndvi |-> e.ndvi,
     ndvi_change |-> Change(s.ndvi, e.ndvi),
     start_date |-> s.datetime,
     end_date |-> e.datetime,
     start_preview |-> s.preview_url,
     end_preview |-> e.preview_url,
     start_cloud |-> s.cloud_cover,
     end_cloud |-> e.cloud_cover]

AnalyzeBeginFailing ==
    /\ pc = "sampled"
    /\ IF points = <<>>
       THEN /\ pc' = "failed"
            /\ exc' = "InsufficientSamplesError"
            /\ UNCHANGED <<results, i, changes>>
       ELSE /\ results' = <<>>
            /\ i' = 1
            /\ pc' = "fetch_start"
            /\ UNCHANGED <<exc, changes>>
    /\ attempts' = 0
    /\ UNCHANGED <<polygon, n_points, points, start_data, end_data,
                   artifacts, log, last_call>>

\* points = self.generate_random_points(n_points); results = []; the for
\* loop starts, or with no point the function returns at once
AnalyzeBegin ==
    /\ pc = "sampled"
    /\ results' = <<>>
    /\ i' = 1
    /\ pc' = LoopPc(1)
    /\ changes' = IF points = <<>> THEN DataFrame(<<>>) ELSE changes
    /\ attempts' = 0
    /\ UNCHANGED <<polygon, n_points, points, start_data, end_data, exc,
                   artifacts, log, last_call>>

\* the first inner try: start_data = self.get_satellite_data(point, start_year)
FetchStart ==
    /\ pc = "fetch_start"
    /\ \E outcome \in CatalogOutcomes, ndvi \in NdviVals :
          LET r == get_satellite_data(points[i], start_year, outcome, ndvi)
          IN /\ last_call' = [outcome |-> outcome, result |-> r]
             /\ log' = Append(log, [point |-> points[i], start |-> r, end |-> Unset])
             /\ IF r.kind = "raise" /\ r.exc # "Timeout"
                THEN \* except Exception: this point is over
                     /\ UNCHANGED start_data
                     /\ i' = i + 1
                     /\ pc' = LoopPc(i + 1)
                     /\ changes' = IF i + 1 > Len(points)
                                   THEN DataFrame(results) ELSE changes
                ELSE \* except requests.exceptions.Timeout: start_data = None
                     /\ start_data' = IF r.kind = "raise" THEN None ELSE r
                     /\ pc' = "fetch_end"
                     /\ UNCHANGED <<i, changes>>
    /\ UNCHANGED <<polygon, n_points, points, attempts, end_data, results,
                   exc, artifacts>>

\* the second inner try: end_data = self.get_satellite_data(point, end_year)
FetchEnd ==
    /\ pc = "fetch_end"
    /\ \E outcome \in CatalogOutcomes, ndvi \in NdviVals :
          LET r == get_satellite_data(points[i], end_year, outcome, ndvi)
          IN /\ last_call' = [outcome |-> outcome, result |-> r]
             /\ log' = [log EXCEPT ![i].end = r]
             /\ IF r.kind = "raise" /\ r.exc # "Timeout"
                THEN /\ UNCHANGED end_data
                     /\ i' = i + 1
                     /\ pc' = LoopPc(i + 1)
                     /\ changes' = IF i + 1 > Len(points)
                                   THEN DataFrame(results) ELSE changes
                ELSE /\ end_data' = IF r.kind = "raise" THEN None ELSE r
                     /\ pc' = "pair"
                     /\ UNCHANGED <<i, changes>>
    /\ UNCHANGED <<polygon, n_points, points, attempts, start_data, results,
                   exc, artifacts>>

\* a record with null fields for a missing observation
NullObs == [kind |-> "none", datetime |-> 0, ndvi |-> 0, cloud_cover |-> 0,
            preview_url |-> None]
PairNullFields ==
    /\ pc = "pair"
    /\ results' = IF Truthy(start_data) \/ Truthy(end_data)
                  THEN Append(results,
                              ChangeRecord(points[i],
                                  IF Truthy(start_data) THEN start_data ELSE NullObs,
                                  IF Truthy(end_data) THEN end_data ELSE NullObs))
                  ELSE results
    /\ i' = i + 1
    /\ pc' = LoopPc(i + 1)
    /\ changes' = IF i + 1 > Len(points) THEN DataFrame(results') ELSE changes
    /\ last_call' = Unset
    /\ UNCHANGED <<polygon, n_points, points, attempts, start_data, end_data,
                   exc, artifacts, log>>

\* a point without both observations ends the loop
PairAborting ==
    /\ pc = "pair"
    /\ IF Truthy(start_data) /\ Truthy(end_data)
       THEN /\ results' = Append(results, ChangeRecord(points[i], start_data, end_data))
            /\ i' = i + 1
            /\ pc' = LoopPc(i + 1)
            /\ changes' = IF i + 1 > Len(points) THEN DataFrame(results') ELSE changes
       ELSE /\ pc' = "analyzed"
            /\ changes' = DataFrame(results)
            /\ UNCHANGED <<results, i>>
    /\ last_call' = Unset
    /\ UNCHANGED <<polygon, n_points, points, attempts, start_data, end_data,
                   exc, artifacts, log>>

\* if start_data and end_data: results.append({...}); then the next point,
\* or return pd.DataFrame(results)
Pair ==
    /\ pc = "pair"
    /\ results' = IF Truthy(start_data) /\ Truthy(end_data)
                  THEN Append(results, ChangeRecord(points[i], start_data, end_data))
                  ELSE results
    /\ i' = i + 1
    /\ pc' = LoopPc(i + 1)
    /\ changes' = IF i + 1 > Len(points) THEN DataFrame(results') ELSE changes
    /\ last_call' = Unset
    /\ UNCHANGED <<polygon, n_points, points, attempts, start_data, end_data,
                   exc, artifacts, log>>

---------------------------------------------------------------------------
(* create_visualizations: plots, map, statistics report *)

Ok(files) == [raised |-> "none", wrote |-> files]
Failed(e) == [raised |-> e, wrote |-> {}]

\* _create_statistical_plots: changes['start_ndvi'] is read before
\* plt.savefig; a frame without that column raises KeyError
create_statistical_plots(df) ==
    IF "start_ndvi" \notin df.columns
    THEN Failed("KeyError")
    ELSE Ok({"ndvi_analysis.png"})

\* _create_interactive_map: m.save(...)
create_interactive_map(df) == Ok({"ndvi_map.html"})

generate_statistics_report_nan(df) == Ok({"ndvi_statistics.txt"})

\* _generate_statistics_report: the f-string is evaluated before the file
\* is opened.  changes['start_date'] raises KeyError on a frame without
\* columns; len(...)/len(changes) raises ZeroDivisionError on a frame
\* without rows.  There is no test for an empty frame.
generate_statistics_report(df) ==
    IF "start_date" \notin df.columns
    THEN Failed("KeyError")
    ELSE IF Len(df.rows) = 0
         THEN Failed("ZeroDivisionError")
         ELSE Ok({"ndvi_statistics.txt"})

\* analyzer.create_visualizations(changes, output_dir='output'): the three
\* steps in order, the first exception leaves main
CreateVisualizations ==
    /\ pc = "analyzed"
    /\ LET p == create_statistical_plots(changes)
           m == IF p.raised = "none" THEN create_interactive_map(changes) ELSE p
           r == IF m.raised = "none" THEN generate_statistics_report(changes) ELSE m
       IN /\ artifacts' = artifacts \cup p.wrote \cup m.wrote \cup r.wrote
          /\ exc' = r.raised
          /\ pc' = IF r.raised = "none" THEN "done" ELSE "failed"
    /\ UNCHANGED <<polygon, n_points, points, attempts, i, start_data,
                   end_data, results, changes, log, last_call>>

\* self._generate_statistics_report(changes, output_dir) on its own
ReportDirect ==
    /\ pc = "report"
    /\ LET r == generate_statistics_report(changes)
       IN /\ artifacts' = artifacts \cup r.wrote
          /\ exc' = r.raised
          /\ pc' = IF r.raised = "none" THEN "done" ELSE "failed"
    /\ UNCHANGED <<polygon, n_points, points, attempts, i, start_data,
                   end_data, results, changes, log, last_call>>

---------------------------------------------------------------------------
(* Specifications *)

\* main: analyzer = NDVIAnalyzer(polygon_coords); analyze_changes enters
\* generate_random_points with points = [], attempts = 0
Init ==
    /\ polygon \in Polygons
    /\ n_points \in 0 .. MaxN
    /\ pc = "sample"
    /\ points = <<>>
    /\ attempts = 0
    /\ i = 0
    /\ start_data = Unset
    /\ end_data = Unset
    /\ results = <<>>
    /\ changes = NoFrame
    /\ exc = "none"
    /\ artifacts = {}
    /\ log = <<>>
    /\ last_call = Unset

Next ==
    \/ SampleStep
    \/ SampleReturn
    \/ AnalyzeBegin
    \/ FetchStart
    \/ FetchEnd
    \/ Pair
    \/ CreateVisualizations

Spec == Init /\ [][Next]_vars

\* generate_random_points alone; a Python loop that can take a step takes it
NextSampler == SampleStep \/ SampleReturn

SamplerSpec == Init /\ [][NextSampler]_vars /\ WF_vars(NextSampler)

\* the statistics report applied to the frames analyze_changes can return:
\* pd.DataFrame(results) for at most MaxRows change records
MaxRows == 2

InsidePoints(poly) ==
    {p \in Uniform(Bounds(poly)[1], Bounds(poly)[3])
           \X Uniform(Bounds(poly)[2], Bounds(poly)[4]) : Contains(poly, p)}

Observations(year) ==
    {get_satellite_data(<<0, 0>>, year, o, v) : o \in CatalogOutcomes, v \in NdviVals}
        \ {None}

ChangeRecords(poly) ==
    {ChangeRecord(p, s, e) : p \in InsidePoints(poly),
                             s \in Observations(start_year),
                             e \in Observations(end_year)}

RowSeqs(poly) ==
    UNION {[1 .. k -> ChangeRecords(poly)] : k \in 0 .. MaxRows}

InitReport ==
    /\ polygon = Square
    /\ n_points = MaxRows
    /\ pc = "report"
    /\ points = <<>>
    /\ attempts = 0
    /\ i = 0
    /\ start_data = Unset
    /\ end_data = Unset
    /\ results \in RowSeqs(polygon)
    /\ changes = DataFrame(results)
    /\ exc = "none"
    /\ artifacts = {}
    /\ log = <<>>
    /\ last_call = Unset

ReportSpec == InitReport /\ [][ReportDirect]_vars

---------------------------------------------------------------------------
(* Properties *)

IsObs(d) == d.kind = "obs"
Finished == pc \in {"analyzed", "done", "failed"}

\* the log entries of the points whose loop iteration is over
Processed == IF pc \in {"fetch_end", "pair"} THEN SubSeq(log, 1, i - 1) ELSE log

Paired(h) == IsObs(h.start) /\ IsObs(h.end)
AbsentIdx == {k \in 1 .. Len(log) : ~Paired(log[k])}

RECURSIVE PairedEntries(_)
PairedEntries(lg) ==
    IF lg = <<>>
    THEN <<>>
    ELSE (IF Paired(Head(lg)) THEN <<Head(lg)>> ELSE <<>>) \o PairedEntries(Tail(lg))

\* C1: results grows only by the record of the current point, and only in
\* a step where both the start-year and the end-year query of that point
\* returned an Observation; a point with an Absent query adds nothing.
C1_RecordOnlyIfBothObserved ==
    [][results' # results =>
          /\ pc = "pair"
          /\ Len(log) = i
          /\ log[i].point = points[i]
          /\ IsObs(log[i].start)
          /\ IsObs(log[i].end)
          /\ Len(results') = Len(results) + 1
          /\ SubSeq(results', 1, Len(results)) = results
          /\ results'[Len(results')].longitude = points[i][1]
          /\ results'[Len(results')].latitude = points[i][2]]_vars

C1_Witness ==
    /\ pc = "analyzed"
    /\ Len(log) = 2
    /\ IsObs(log[1].start) /\ log[1].end = None
    /\ Paired(log[2])
    /\ Len(results) = 1

\* C2: at every step of generate_random_points the number of accepted
\* points is at most n_points and the number of draws at most
\* max_attempts = 10 * n_points.
C2_SamplerBounded ==
    /\ Len(points) <= n_points
    /\ attempts <= max_attempts(n_points)

C2_Witness ==
    /\ pc = "sampled"
    /\ n_points = 2
    /\ Len(points) = n_points
    /\ attempts > n_points

\* C3: every point the Sampler holds or returns is contained in the
\* polygon, whether the polygon is convex or not.
C3_PointsInsidePolygon ==
    \A k \in 1 .. Len(points) : Contains(polygon, points[k])

C3_Witness ==
    /\ pc = "sampled"
    /\ polygon = Chevron
    /\ Len(points) = 2
    /\ attempts > Len(points)

\* C4: when analyze_changes has returned, every sampled point was processed
\* and the result holds exactly one record per point whose two queries both
\* returned an Observation, in order: m points of which k had an Absent
\* query give m - k records.
C4_ExactlyPairedRecords ==
    Finished =>
        /\ Len(log) = Len(points)
        /\ Len(results) = Len(points) - Cardinality(AbsentIdx)
        /\ LET pe == PairedEntries(log)
           IN /\ Len(results) = Len(pe)
              /\ \A j \in 1 .. Len(pe) :
                    <<results[j].longitude, results[j].latitude>> = pe[j].point

C4_Witness ==
    /\ pc = "analyzed"
    /\ Len(points) = 2
    /\ Cardinality(AbsentIdx) = 1
    /\ \E k \in AbsentIdx : IsObs(log[k].start) /\ log[k].end = None
    /\ Len(results) = 1

\* C5: per-point failures never abort the batch: when analyze_changes is
\* over it has returned a frame without raising, and every sampled point,
\* also each one after a point with an Absent query, has had both its
\* queries made.
C5_BatchNeverAborted ==
    /\ exc # "none" => pc = "failed" /\ changes # NoFrame
    /\ Finished =>
          /\ changes = DataFrame(results)
          /\ Len(log) = Len(points)
          /\ \A k \in 1 .. Len(log) :
                /\ log[k].point = points[k]
                /\ log[k].start # Unset
                /\ log[k].end # Unset

C5_Witness ==
    /\ pc = "analyzed"
    /\ Len(log) = 2
    /\ log[1].start = None
    /\ log[1].end = None
    /\ Paired(log[2])
    /\ changes.rows # <<>>

\* get_satellite_data never lets an exception out, and answers None when
\* the catalog times out, fails or has no item.
FetchAbsorbsFailures ==
    last_call # Unset =>
        /\ last_call.result.kind \in {"obs", "none"}
        /\ last_call.outcome.kind \in {"timeout", "error", "no_items"}
              => last_call.result = None

\* C6: get_satellite_data never raises; a timeout, another error or an
\* empty answer of the catalog gives None, and an item gives a fully
\* populated Observation.
C6_FetchTotal ==
    last_call # Unset =>
        /\ last_call.result.kind # "raise"
        /\ last_call.outcome.kind \in {"timeout", "error", "no_items"}
              => last_call.result = None
        /\ last_call.outcome.kind = "item" => IsObs(last_call.result)

C9_SamplerTerminates ==
    /\ <>(pc = "sampled")
    /\ [](pc = "sampled" =>
            /\ Len(points) < n_points => attempts = max_attempts(n_points)
            /\ polygon = Degenerate =>
                  points = <<>> /\ attempts = max_attempts(n_points))

C9_Witness ==
    /\ pc = "sampled"
    /\ polygon = Degenerate
    /\ n_points > 0
    /\ points = <<>>
    /\ attempts = max_attempts(n_points)

\* C10: the j-th record holds the ndvi values and dates that the start-year
\* and end-year queries of the j-th paired point returned, start as start
\* and end as end, and its change is end minus start.
C10_ChangeIsEndMinusStart ==
    LET pe == PairedEntries(Processed)
    IN /\ Len(results) = Len(pe)
       /\ \A j \in 1 .. Len(results) :
             /\ results[j].start_ndvi = pe[j].start.ndvi
             /\ results[j].end_ndvi = pe[j].end.ndvi
             /\ results[j].start_date = start_year
             /\ results[j].end_date = end_year
             /\ results[j].ndvi_change = pe[j].end.ndvi - pe[j].start.ndvi
             /\ results[j].ndvi_change = results[j].end_ndvi - results[j].start_ndvi

C10_Witness ==
    /\ pc = "analyzed"
    /\ Len(results) = 2
    /\ results[1].ndvi_change < 0
    /\ results[2].ndvi_change > 0
    /\ results[1].longitude # results[2].longitude

===========================================================================
